---- MODULE Spec2Model ----
(***************************************************************************)
(* A model of the roadmap editor: the document kept in the DOM             *)
(* (roadmapUi.js), the status registry (statusManager.js) and the          *)
(* debounced remote save, the AI generation and the session (script.js,    *)
(* Supabase version), and the load of the local-storage version.           *)
(*                                                                         *)
(* Strings that the code assembles or takes apart are sequences of their   *)
(* parts: the id "milestone-3" is <<"milestone", 3>> (what split('-')      *)
(* yields), the default title "Milestone 3" is <<"Milestone", 3>>, a typed *)
(* title is <<"Launch">>, the status names are <<"Done">> and              *)
(* <<"New Status", 2>>, and an empty text is <<>>.                         *)
(***************************************************************************)
EXTENDS Integers, Sequences, FiniteSets, TLC

VARIABLES
  roadmapName,       \* roadmapNameInput.value
  milestones,        \* the .milestone-section children of roadmapOutputDiv, in order
  milestoneCounter,  \* roadmapUi.js: let milestoneCounter
  STATUSES,          \* statusManager.js: let STATUSES
  storedStatuses,    \* localStorage[STATUS_STORAGE_KEY]
  storedRoadmap,     \* localStorage[ROADMAP_STORAGE_KEY], written by the local-storage version
  timeout,           \* the timer slot of debouncedAutoSave: its due time, or NoTimer
  lastCall,          \* history: when debouncedAutoSave was last called, NoCall once its timer fired
  burst,             \* history: the calls of debouncedAutoSave that led to the last timer, up to MaxBurst
  now,               \* the clock, in milliseconds
  loadedRoadmapId,   \* script.js: let loadedRoadmapId
  calls,             \* the performSave / load invocations that have not returned yet
  remote,            \* the rows of the remote table 'roadmaps'
  user,              \* the user of the Supabase session, or NoUser
  saveDisabled,      \* saveButton.disabled
  generateAiDisabled, \* generateAiButton.disabled
  aiStatusMessage,   \* aiStatusMessage.textContent
  lastOp,            \* history: the handler that ran last with its argument, or what it reported
  seenSuffix,        \* history: largest id suffix generated or loaded since the last reset
  generated          \* history: <<suffix, seenSuffix before>> of each id the last handler generated

vars == <<roadmapName, milestones, milestoneCounter, STATUSES, storedStatuses, storedRoadmap,
          timeout, lastCall, burst, now, loadedRoadmapId, calls, remote,
          user, saveDisabled, generateAiDisabled, aiStatusMessage,
          lastOp, seenSuffix, generated>>

docVars == <<roadmapName, milestones, milestoneCounter>>
regVars == <<STATUSES, storedStatuses, storedRoadmap>>
timerVars == <<timeout, lastCall, burst>>
netVars == <<loadedRoadmapId, calls, remote>>
sessionVars == <<user, saveDisabled>>
aiVars == <<generateAiDisabled, aiStatusMessage>>
uiVars == <<sessionVars, aiVars>>

(***************************************************************************)
(* Bounds of the model.                                                    *)
(***************************************************************************)
MaxMilestones == 2   \* milestones in the document and in a snapshot
MaxItems      == 2   \* checklist items per milestone
MaxCounter    == 3   \* milestoneCounter is not driven past this
MaxLoadSuffix == 2   \* largest <k> of a loaded id milestone-<k>
MaxBurst      == 3   \* the calls of one burst are counted up to this

(***************************************************************************)
(* Values.                                                                 *)
(***************************************************************************)
NoTimer == -1              \* let timeout; and the slot after the timer has run
NoCall  == NoTimer
NoId    == <<>>            \* a milestone without an id (undefined or "")
NullId  == "null"          \* loadedRoadmapId = null
NoUser  == "none"          \* getSession() yields no session

Min(S) == CHOOSE x \in S : \A y \in S : x <= y

Op(name, index) == [op |-> name, index |-> index]

(***************************************************************************)
(* config.js                                                               *)
(***************************************************************************)
DEFAULT_STATUSES ==
  << [name |-> <<"Not Started">>, icon |-> "memo"],
     [name |-> <<"In Progress">>, icon |-> "gear"],
     [name |-> <<"Completed">>,   icon |-> "check"],
     [name |-> <<"Blocked">>,     icon |-> "stop"],
     [name |-> <<"At Risk">>,     icon |-> "warning"] >>

FallbackIcon == "question"   \* the literal used when find() yields nothing

(***************************************************************************)
(* statusManager.js: getStatuses().find(s => s.name === name)              *)
(***************************************************************************)
HasStatus(statuses, name) == \E i \in DOMAIN statuses : statuses[i].name = name

FindIcon(statuses, name) ==
  IF HasStatus(statuses, name)
  THEN statuses[Min({i \in DOMAIN statuses : statuses[i].name = name})].icon
  ELSE FallbackIcon

(***************************************************************************)
(* roadmapUi.js: createChecklistItemElement(itemData). itemData is a       *)
(* record [text, status]; no itemData is NewItemData.                      *)
(***************************************************************************)
NewItemData == [text |-> "", status |-> <<>>]

\* the status of itemData is taken as it comes
InitialStatusName_Unchecked(statuses, status) ==
  IF status # <<>> THEN status
  ELSE IF Len(statuses) > 0 THEN statuses[1].name
  ELSE <<"Not Started">>

InitialStatusName(statuses, status) ==
  IF status # <<>> /\ HasStatus(statuses, status) THEN status
  ELSE IF Len(statuses) > 0 THEN statuses[1].name
  ELSE <<"Not Started">>

createChecklistItemElement(itemData, statuses) ==
  LET initialStatusName == InitialStatusName(statuses, itemData.status)
  IN [ text   |-> itemData.text,
       status |-> initialStatusName,
       icon   |-> FindIcon(statuses, initialStatusName) ]

(***************************************************************************)
(* roadmapUi.js: createMilestoneElement(milestoneId, milestoneData).       *)
(* milestoneData is a record [id, title, purpose, currentCompletionDate,   *)
(* originalCompletionDate, items]; no milestoneData is NullData.           *)
(***************************************************************************)
NullData ==
  [ id |-> NoId, title |-> <<>>, purpose |-> "",
    currentCompletionDate |-> "", originalCompletionDate |-> "", items |-> <<>> ]

TitleTag == "h3"          \* roadmapUi.js: document.createElement('h3')

IsParseableDate(d) == d \in {"2025-06-01", "2025-07-01"}

\* What <input type="date"> keeps of an assigned value.
DateInputValue(v) == IF v = "" \/ IsParseableDate(v) \/ v = "275760-09-13" THEN v ELSE ""

DefaultTitle(milestoneId, counter) ==
  <<"Milestone", IF Len(milestoneId) >= 2 THEN milestoneId[2] ELSE counter>>

createMilestoneElement(milestoneId, milestoneData, counter, statuses) ==
  [ id           |-> milestoneId,
    titleTag     |-> TitleTag,
    title        |-> IF milestoneData.title # <<>> THEN milestoneData.title
                     ELSE DefaultTitle(milestoneId, counter),
    purpose      |-> milestoneData.purpose,
    dateValue    |-> DateInputValue(milestoneData.currentCompletionDate),
    originalDate |-> milestoneData.originalCompletionDate,
    items        |-> [k \in DOMAIN milestoneData.items |->
                        createChecklistItemElement(milestoneData.items[k], statuses)] ]

(***************************************************************************)
(* roadmapUi.js: addMilestoneSection(milestoneData), on the document state *)
(* d = [milestones, counter, seen, generated].                             *)
(***************************************************************************)
IsNumber(x) == x \in Nat

\* parseInt(id.split('-')[1], 10); NaN is -1
ParseSuffix(id) == IF Len(id) >= 2 /\ IsNumber(id[2]) THEN id[2] ELSE -1

\* the counter is not moved past a loaded id
AdvanceCounter_Never(counter, id) == counter

AdvanceCounter(counter, id) ==
  LET num == ParseSuffix(id)
  IN IF id # NoId /\ num # -1 /\ num >= counter THEN num + 1 ELSE counter

addMilestoneSection(d, milestoneData, statuses) ==
  LET incremented == d.counter + 1
      milestoneId == IF milestoneData.id # NoId THEN milestoneData.id
                     ELSE <<"milestone", incremented>>
      counter     == AdvanceCounter(incremented, milestoneData.id)
      suffix      == ParseSuffix(milestoneId)
  IN [ milestones |-> Append(d.milestones,
                        createMilestoneElement(milestoneId, milestoneData, counter, statuses)),
       counter    |-> counter,
       seen       |-> IF suffix > d.seen THEN suffix ELSE d.seen,
       generated  |-> IF milestoneData.id = NoId
                      THEN Append(d.generated, <<incremented, d.seen>>)
                      ELSE d.generated ]

RECURSIVE addAll(_, _, _)
\* data.milestones.forEach(milestoneData => addMilestoneSection(milestoneData))
addAll(d, datas, statuses) ==
  IF datas = <<>> THEN d
  ELSE addAll(addMilestoneSection(d, Head(datas), statuses), Tail(datas), statuses)

Doc(ms) == [milestones |-> ms, counter |-> milestoneCounter,
            seen |-> seenSuffix, generated |-> <<>>]

(***************************************************************************)
(* script.js: debouncedAutoSave = debounce(() => performSave(true), 2500). *)
(* A call clears the pending timer and sets a new one, due WAIT from now.  *)
(***************************************************************************)
WAIT == 2500

\* a call leaves a pending timer as it is
debouncedAutoSave_NoReset ==
  /\ timeout' = IF timeout = NoTimer THEN now + WAIT ELSE timeout
  /\ lastCall' = now
  /\ burst' = IF lastCall = NoCall THEN 1 ELSE IF burst < MaxBurst THEN burst + 1 ELSE burst

debouncedAutoSave ==
  /\ timeout' = now + WAIT
  /\ lastCall' = now
  /\ burst' = IF lastCall = NoCall THEN 1 ELSE IF burst < MaxBurst THEN burst + 1 ELSE burst

(***************************************************************************)
(* script.js: the click on "Start New Roadmap", with generateRoadmap().    *)
(***************************************************************************)
StartNewRoadmap(confirmed) ==
  /\ Len(milestones) > 0 => confirmed
  /\ LET d == addMilestoneSection(
                [milestones |-> <<>>, counter |-> 0, seen |-> 0, generated |-> <<>>],
                NullData, STATUSES)
     IN /\ milestones' = d.milestones
        /\ milestoneCounter' = d.counter
        /\ seenSuffix' = d.seen
        /\ generated' = d.generated
  /\ debouncedAutoSave
  /\ lastOp' = Op("startNew", 0)
  /\ UNCHANGED <<roadmapName, regVars, now, netVars, uiVars>>

(***************************************************************************)
(* script.js: the click on "Add Milestone".                                *)
(***************************************************************************)
AddMilestoneClick ==
  /\ Len(milestones) < MaxMilestones
  /\ milestoneCounter < MaxCounter
  /\ LET d == addMilestoneSection(Doc(milestones), NullData, STATUSES)
     IN /\ milestones' = d.milestones
        /\ milestoneCounter' = d.counter
        /\ seenSuffix' = d.seen
        /\ generated' = d.generated
  /\ debouncedAutoSave
  /\ lastOp' = Op("addMilestone", 0)
  /\ UNCHANGED <<roadmapName, regVars, now, netVars, uiVars>>

Remove(seq, i) == [k \in 1..(Len(seq) - 1) |-> IF k < i THEN seq[k] ELSE seq[k + 1]]

(***************************************************************************)
(* roadmapUi.js: handleRoadmapInteraction, click on .delete-milestone-btn  *)
(* (the user confirmed).                                                   *)
(***************************************************************************)
DeleteMilestoneClick(i) ==
  /\ i \in DOMAIN milestones
  /\ milestones' = Remove(milestones, i)
  /\ generated' = <<>>
  /\ debouncedAutoSave
  /\ lastOp' = Op("deleteMilestone", 0)
  /\ UNCHANGED <<roadmapName, milestoneCounter, seenSuffix, regVars, now, netVars, uiVars>>

(***************************************************************************)
(* script.js: renderRoadmapFromData(data). data is a record                *)
(* [shape, roadmapName, milestones]; shape tells what the validation at    *)
(* the head of the function sees:                                          *)
(*   "milestones"  data.milestones is an array                             *)
(*   "nameOnly"    the only key is roadmapName                             *)
(*   "periods"     the old format, data.periods is an array                *)
(*   "invalid"     milestones missing or no array, beside other keys       *)
(*   "notObject"   null, or no object                                      *)
(* The result is [ok, alert, name, d]: what it returns, the alert it       *)
(* raises (its first words) and what it leaves in the name input and in    *)
(* the document.                                                           *)
(***************************************************************************)
Snapshot(name, ms) == [shape |-> "milestones", roadmapName |-> name, milestones |-> ms]

renderRoadmapFromData_PeriodsAccepted(data, name, d, statuses) ==
  IF data.shape \in {"notObject", "invalid"}
  THEN [ok |-> FALSE, alert |-> "Error: Could not load data", name |-> name, d |-> d]
  ELSE [ ok |-> TRUE, alert |-> "", name |-> data.roadmapName,
         d |-> addAll([d EXCEPT !.milestones = <<>>], data.milestones, statuses) ]

renderRoadmapFromData(data, name, d, statuses) ==
  IF data.shape \in {"notObject", "periods", "invalid"}
  THEN [ ok    |-> FALSE,
         alert |-> IF data.shape = "periods" THEN "Incompatible Data"
                   ELSE "Error: Could not load data",
         name  |-> name,
         d     |-> d ]
  ELSE [ ok   |-> TRUE,
         alert |-> "",
         name |-> data.roadmapName,
         d    |-> addAll([d EXCEPT !.milestones = <<>>],
                         IF data.shape = "nameOnly" THEN <<>> ELSE data.milestones,
                         statuses) ]

(***************************************************************************)
(* script.js: handleLoadSpecificRoadmap from the answer of the select on:  *)
(* the row was found and renderData is built from it.                      *)
(***************************************************************************)
LoadRendered(roadmapId, renderData, confirmed) ==
  IF Len(milestones) > 0 /\ loadedRoadmapId # roadmapId /\ ~confirmed
  THEN /\ lastOp' = Op("loadCancelled", 0)
       /\ generated' = <<>>
       /\ UNCHANGED <<docVars, seenSuffix, loadedRoadmapId>>
  ELSE LET r == renderRoadmapFromData(renderData, roadmapName, Doc(milestones), STATUSES)
       IN /\ r.d.counter <= MaxCounter
          /\ roadmapName' = r.name
          /\ milestones' = r.d.milestones
          /\ milestoneCounter' = r.d.counter
          /\ seenSuffix' = r.d.seen
          /\ generated' = r.d.generated
          /\ loadedRoadmapId' = IF r.ok THEN roadmapId ELSE NullId
          /\ lastOp' = Op(IF r.ok THEN "load" ELSE "loadFailed", 0)

(***************************************************************************)
(* script.js: handleGenerateAiRoadmap from response.ok on. data is a       *)
(* record [roadmapName, nameIsString, milestones, isArray]: roadmapName is *)
(* the text that the name input shows for data.roadmapName ("" for a falsy *)
(* one), nameIsString whether data.roadmapName is a string (the code does  *)
(* not look), isArray is Array.isArray(data.milestones). The message       *)
(* about incomplete data is replaced at once by the one about success.     *)
(***************************************************************************)
AiData(name, ms) ==
  [roadmapName |-> name, nameIsString |-> TRUE, milestones |-> ms, isArray |-> TRUE]

AiRendered(data, confirmed) ==
  IF Len(milestones) > 0 /\ ~confirmed
  THEN /\ aiStatusMessage' = "AI generation cancelled."
       /\ lastOp' = Op("aiCancelled", 0)
       /\ generated' = <<>>
       /\ UNCHANGED <<docVars, seenSuffix, timerVars>>
  ELSE LET d == addAll([Doc(<<>>) EXCEPT !.milestones = <<>>],
                       IF data.isArray THEN data.milestones ELSE <<>>, STATUSES)
       IN /\ d.counter <= MaxCounter
          /\ roadmapName' = (IF data.roadmapName # "" THEN data.roadmapName
                             ELSE "AI Generated Roadmap")
          /\ milestones' = d.milestones
          /\ milestoneCounter' = d.counter
          /\ seenSuffix' = d.seen
          /\ generated' = d.generated
          /\ aiStatusMessage' = "Roadmap generated successfully!"
          /\ debouncedAutoSave
          /\ lastOp' = Op("ai", 0)

(***************************************************************************)
(* roadmapUi.js: the handlers of handleRoadmapInteraction on one item or   *)
(* one milestone. i is the milestone's position, k the item's.             *)
(***************************************************************************)
SetItems(i, items) == milestones' = [milestones EXCEPT ![i].items = items]

\* _handleAddLineItem
AddLineItem(i) ==
  /\ i \in DOMAIN milestones
  /\ Len(milestones[i].items) < MaxItems
  /\ SetItems(i, Append(milestones[i].items, createChecklistItemElement(NewItemData, STATUSES)))
  /\ debouncedAutoSave
  /\ lastOp' = Op("addItem", i)
  /\ generated' = <<>>
  /\ UNCHANGED <<roadmapName, milestoneCounter, seenSuffix, regVars, now, netVars, uiVars>>

\* _handleDeleteLineItem
DeleteLineItem(i, k) ==
  /\ i \in DOMAIN milestones
  /\ k \in DOMAIN milestones[i].items
  /\ SetItems(i, Remove(milestones[i].items, k))
  /\ debouncedAutoSave
  /\ lastOp' = Op("deleteItem", i)
  /\ generated' = <<>>
  /\ UNCHANGED <<roadmapName, milestoneCounter, seenSuffix, regVars, now, netVars, uiVars>>

\* _handleChangeItemStatus: the user picked the option newStatusName of the
\* dropdown, whose options are the names of the registry (every handler that
\* changes a name, adds or removes a status rebuilds them).
ChangeItemStatus(i, k, newStatusName) ==
  /\ i \in DOMAIN milestones
  /\ k \in DOMAIN milestones[i].items
  /\ HasStatus(STATUSES, newStatusName)
  /\ SetItems(i, [milestones[i].items EXCEPT
                    ![k].status = newStatusName,
                    ![k].icon = FindIcon(STATUSES, newStatusName)])
  /\ debouncedAutoSave
  /\ lastOp' = Op("changeStatus", i)
  /\ generated' = <<>>
  /\ UNCHANGED <<roadmapName, milestoneCounter, seenSuffix, regVars, now, netVars, uiVars>>

\* the set-original-date decision of _handleMilestoneDateBlur
OriginalDateOnBlur_Always(currentOriginal, finalDateStr) ==
  IF finalDateStr # "" /\ IsParseableDate(finalDateStr) THEN finalDateStr ELSE currentOriginal

OriginalDateOnBlur(currentOriginal, finalDateStr) ==
  IF currentOriginal = "" /\ finalDateStr # "" /\ IsParseableDate(finalDateStr)
  THEN finalDateStr
  ELSE currentOriginal

\* the user sets the date input to v: the 'change' event, _handleMilestoneDateChange
DateChange(i, v) ==
  /\ i \in DOMAIN milestones
  /\ milestones[i].dateValue # v
  /\ milestones' = [milestones EXCEPT ![i].dateValue = v]
  /\ debouncedAutoSave
  /\ lastOp' = Op("dateChange", i)
  /\ generated' = <<>>
  /\ UNCHANGED <<roadmapName, milestoneCounter, seenSuffix, regVars, now, netVars, uiVars>>

\* the date input loses the focus: _handleMilestoneDateBlur
DateBlur(i) ==
  /\ i \in DOMAIN milestones
  /\ milestones' = [milestones EXCEPT ![i].originalDate =
                      OriginalDateOnBlur(milestones[i].originalDate, milestones[i].dateValue)]
  /\ lastOp' = Op("dateBlur", i)
  /\ generated' = <<>>
  /\ UNCHANGED <<roadmapName, milestoneCounter, seenSuffix, regVars, timerVars, now, netVars, uiVars>>

(***************************************************************************)
(* roadmapUi.js: updateRoadmapDropdowns(oldName, newName, removedName),    *)
(* on one checklist item; a null name is <<>>.                             *)
(***************************************************************************)
ValueToSelect_Unmapped(status, oldName, newName) == status

ValueToSelect(status, oldName, newName) ==
  IF oldName # <<>> /\ newName # <<>> /\ oldName # newName /\ status = oldName
  THEN newName
  ELSE status

UpdateDropdown(item, statuses, oldName, newName) ==
  LET valueToSelectAfterUpdate == ValueToSelect(item.status, oldName, newName)
      firstStatusName == IF Len(statuses) > 0 THEN statuses[1].name ELSE <<"Not Started">>
  IN IF HasStatus(statuses, valueToSelectAfterUpdate)
     THEN [item EXCEPT !.status = valueToSelectAfterUpdate]
     ELSE [item EXCEPT !.status = firstStatusName,
                       !.icon = FindIcon(statuses, firstStatusName)]

updateRoadmapDropdowns(ms, statuses, oldName, newName) ==
  [i \in DOMAIN ms |->
     [ms[i] EXCEPT !.items =
        [k \in DOMAIN ms[i].items |-> UpdateDropdown(ms[i].items[k], statuses, oldName, newName)]]]

\* roadmapUi.js: updateChecklistItemIcons(updatedStatusIndex)
updateChecklistItemIcons(ms, statuses, index) ==
  [i \in DOMAIN ms |->
     [ms[i] EXCEPT !.items =
        [k \in DOMAIN ms[i].items |->
           IF ms[i].items[k].status = statuses[index].name
           THEN [ms[i].items[k] EXCEPT !.icon = statuses[index].icon]
           ELSE ms[i].items[k]]]]

(***************************************************************************)
(* statusManager.js. The stored registry is [kind, value]: kind "absent"   *)
(* (no entry), "corrupt" (JSON.parse throws), "json" (value is the array   *)
(* that was parsed) or "other" (what was parsed is no array).              *)
(***************************************************************************)
MaxStatuses == 3   \* "Add Status" is not driven past this registry length

Stored(statuses) == [kind |-> "json", value |-> statuses]
Absent == [kind |-> "absent", value |-> <<>>]
Corrupt == [kind |-> "corrupt", value |-> <<>>]

\* a name and an icon that stand for the values whose typeof is not 'string'
NotAStringName == <<"typeof", "number">>
NotAStringIcon == "typeof number"

\* typeof s.name === 'string', typeof s.icon === 'string'
IsStringName(v) == v # NotAStringName
IsStringIcon(v) == v # NotAStringIcon

\* kind "json" is a parsed array; any other parsed value has kind "other"
loadStatuses(stored) ==
  IF /\ stored.kind = "json"
     /\ Len(stored.value) > 0
     /\ \A i \in DOMAIN stored.value :
          IsStringName(stored.value[i].name) /\ IsStringIcon(stored.value[i].icon)
  THEN stored.value
  ELSE DEFAULT_STATUSES

saveStatuses_Skipped(statuses) == UNCHANGED storedStatuses

saveStatuses(statuses) ==
  storedStatuses' = IF Len(statuses) > 0 THEN Stored(statuses) ELSE storedStatuses

Trim_Nothing(text) == text

\* String.prototype.trim on the texts typed in this model
Trim(text) ==
  CASE text = <<" ">> -> <<>>
    [] text = <<" Active ">> -> <<"Active">>
    [] OTHER -> text

\* handleStatusLegendChange: an input event on the name field of entry index
LegendRename(index, newName) ==
  LET oldName == STATUSES[index].name
      trimmedNewName == Trim(newName)
  IN /\ index \in DOMAIN STATUSES
     /\ generated' = <<>>
     /\ IF trimmedNewName = <<>>
        THEN /\ lastOp' = Op("renameRejected", 0)
             /\ UNCHANGED <<docVars, seenSuffix, regVars, timerVars, now, netVars, uiVars>>
        ELSE IF oldName = trimmedNewName
        THEN /\ lastOp' = Op("renameSame", 0)
             /\ UNCHANGED <<docVars, seenSuffix, regVars, timerVars, now, netVars, uiVars>>
        ELSE /\ STATUSES' = [STATUSES EXCEPT ![index].name = trimmedNewName]
             /\ saveStatuses(STATUSES')
             /\ debouncedAutoSave
             /\ milestones' = updateRoadmapDropdowns(milestones, STATUSES', oldName, trimmedNewName)
             /\ lastOp' = Op("rename", index)
             /\ UNCHANGED <<storedRoadmap, roadmapName, milestoneCounter, seenSuffix, now, netVars, uiVars>>

LastStatus_Never(statuses) == FALSE

\* handleLegendClick: the check that refuses to remove the last status
LastStatus(statuses) == Len(statuses) <= 1

\* handleLegendClick on the remove button of entry index
LegendRemove(index, confirmed) ==
  /\ index \in DOMAIN STATUSES
  /\ generated' = <<>>
  /\ IF LastStatus(STATUSES) \/ ~confirmed
     THEN /\ lastOp' = Op("removeRejected", 0)
          /\ UNCHANGED <<docVars, seenSuffix, regVars, timerVars, now, netVars, uiVars>>
     ELSE /\ STATUSES' = Remove(STATUSES, index)
          /\ saveStatuses(STATUSES')
          /\ debouncedAutoSave
          /\ milestones' = updateRoadmapDropdowns(milestones, STATUSES', <<>>, <<>>)
          /\ lastOp' = Op("remove", index)
          /\ UNCHANGED <<storedRoadmap, roadmapName, milestoneCounter, seenSuffix, now, netVars, uiVars>>

RECURSIVE DefaultName(_, _)
\* the while loop of handleAddStatusClick, from counter on
DefaultName(statuses, counter) ==
  LET defaultName == IF counter = 1 THEN <<"New Status">> ELSE <<"New Status", counter>>
  IN IF \E i \in DOMAIN statuses : statuses[i].name = defaultName
     THEN DefaultName(statuses, counter + 1)
     ELSE defaultName

\* handleAddStatusClick
AddStatusClick ==
  /\ Len(STATUSES) < MaxStatuses
  /\ STATUSES' = Append(STATUSES, [name |-> DefaultName(STATUSES, 1), icon |-> FallbackIcon])
  /\ saveStatuses(STATUSES')
  /\ debouncedAutoSave
  /\ milestones' = updateRoadmapDropdowns(milestones, STATUSES', <<>>, <<>>)
  /\ lastOp' = Op("addStatus", 0)
  /\ generated' = <<>>
  /\ UNCHANGED <<storedRoadmap, roadmapName, milestoneCounter, seenSuffix, now, netVars, uiVars>>

\* handleEmojiGridClick on newEmoji, the popup having been opened on entry index
EmojiChoice(index, newEmoji) ==
  /\ index \in DOMAIN STATUSES
  /\ generated' = <<>>
  /\ IF STATUSES[index].icon # newEmoji
     THEN /\ STATUSES' = [STATUSES EXCEPT ![index].icon = newEmoji]
          /\ saveStatuses(STATUSES')
          /\ debouncedAutoSave
          /\ milestones' = updateChecklistItemIcons(milestones, STATUSES', index)
          /\ lastOp' = Op("setIcon", 0)
          /\ UNCHANGED <<storedRoadmap, roadmapName, milestoneCounter, seenSuffix, now, netVars, uiVars>>
     ELSE /\ lastOp' = Op("setIconSame", 0)
          /\ UNCHANGED <<docVars, seenSuffix, regVars, timerVars, now, netVars, uiVars>>

(***************************************************************************)
(* The state after the scripts have run: statusManager.js has loaded the   *)
(* registry, the document is empty, nothing is scheduled; the session of   *)
(* user "u1" has been reported (INITIAL_SESSION): the save button is       *)
(* enabled.                                                                *)
(***************************************************************************)
\* localStorage.getItem(ROADMAP_STORAGE_KEY) of a browser that never saved a roadmap
NoStoredRoadmap ==
  [kind |-> "absent", data |-> [shape |-> "notObject", roadmapName |-> "", milestones |-> <<>>]]

InitWith(stored, statuses) ==
  /\ roadmapName = ""
  /\ milestones = <<>>
  /\ milestoneCounter = 0
  /\ storedStatuses = stored
  /\ storedRoadmap = NoStoredRoadmap
  /\ STATUSES = statuses
  /\ timeout = NoTimer
  /\ lastCall = NoCall
  /\ burst = 0
  /\ now = 0
  /\ loadedRoadmapId = NullId
  /\ calls = <<>>
  /\ remote = {}
  /\ user = "u1"
  /\ saveDisabled = FALSE
  /\ generateAiDisabled = FALSE
  /\ aiStatusMessage = ""
  /\ lastOp = Op("init", 0)
  /\ seenSuffix = 0
  /\ generated = <<>>

(***************************************************************************)
(* Milestone ids: start new, add, delete, load and AI generation, over     *)
(* snapshots whose milestones carry pairwise distinct ids or none.         *)
(***************************************************************************)
IdChoices == {NoId, <<"kickoff">>} \cup {<<"milestone", k>> : k \in 1..MaxLoadSuffix}

IdLists ==
  { s \in UNION {[1..n -> IdChoices] : n \in 1..MaxMilestones} :
      \A i, j \in DOMAIN s : (i # j /\ s[i] # NoId) => s[i] # s[j] }

IdSnapshotMilestones == { [i \in DOMAIN s |-> [NullData EXCEPT !.id = s[i]]] : s \in IdLists }

RoadmapIds == {"r1", "r2"}

InitIds == InitWith(Absent, loadStatuses(Absent))

NextIds ==
  \/ \E c \in BOOLEAN : StartNewRoadmap(c)
  \/ AddMilestoneClick
  \/ \E i \in 1..MaxMilestones : DeleteMilestoneClick(i)
  \/ \E ms \in IdSnapshotMilestones, c \in BOOLEAN :
       /\ LoadRendered("r1", Snapshot("Plan", ms), c)
       /\ UNCHANGED <<regVars, timerVars, now, calls, remote, uiVars>>
  \/ \E ms \in IdSnapshotMilestones, c \in BOOLEAN :
       /\ AiRendered(AiData("Plan", ms), c)
       /\ UNCHANGED <<regVars, now, netVars, sessionVars, generateAiDisabled>>

SpecIds == InitIds /\ [][NextIds]_vars

(***************************************************************************)
(* C8. Milestone id monotonicity: every id milestone-<n> that              *)
(* addMilestoneSection generates has n strictly greater than every numeric *)
(* suffix generated or loaded before it since the counter was last reset   *)
(* by starting a new roadmap.                                              *)
(***************************************************************************)
C8_IdMonotonic ==
  \A k \in DOMAIN generated : generated[k][1] > generated[k][2]

\* "Add Milestone" after the load of milestone-1 on a fresh page: the load moved
\* the counter to 2, the id generated is milestone-3
C8_Witness ==
  /\ lastOp.op = "addMilestone"
  /\ loadedRoadmapId # NullId
  /\ generated = << <<3, 1>> >>
  /\ milestones[1].id = <<"milestone", 1>>

(***************************************************************************)
(* C9. Milestone id uniqueness: after any sequence of start-new, add,      *)
(* delete, AI generation and loads of snapshots whose carried ids are      *)
(* pairwise distinct (milestones without an id in any position), no two    *)
(* milestones of the document have the same id.                            *)
(***************************************************************************)
C9_IdsUnique ==
  \A i, j \in DOMAIN milestones : i # j => milestones[i].id # milestones[j].id

(***************************************************************************)
(* Dates: the date input and its blur, on milestones made by the buttons   *)
(* or loaded with dates.                                                   *)
(***************************************************************************)
DateValues == {"", "2025-06-01", "2025-07-01", "275760-09-13"}

DateSnapshotMilestones ==
  { << [NullData EXCEPT !.currentCompletionDate = c, !.originalCompletionDate = o] >> :
      c \in {"", "2025-07-01"}, o \in {"", "2025-06-01"} }

NextDate ==
  \/ \E c \in BOOLEAN : StartNewRoadmap(c)
  \/ AddMilestoneClick
  \/ \E i \in 1..MaxMilestones, v \in DateValues : DateChange(i, v)
  \/ \E i \in 1..MaxMilestones : DateBlur(i)
  \/ \E ms \in DateSnapshotMilestones, c \in BOOLEAN :
       /\ LoadRendered("r1", Snapshot("Plan", ms), c)
       /\ UNCHANGED <<regVars, timerVars, now, calls, remote, uiVars>>

SpecDate == InitIds /\ [][NextDate]_vars

(***************************************************************************)
(* C10. Original date is write-once: on a milestone whose original date is *)
(* empty, the blur of a non-empty valid date d sets the original date to   *)
(* d; once the original date is set, no date edit (change or blur) on the  *)
(* milestone changes it.                                                   *)
(***************************************************************************)
C10_OriginalWriteOnce ==
  [][ \A i \in DOMAIN milestones :
        /\ ( /\ lastOp' = Op("dateBlur", i)
             /\ milestones[i].originalDate = ""
             /\ IsParseableDate(milestones[i].dateValue) )
           => /\ milestones'[i].originalDate = milestones[i].dateValue
              /\ milestones'[i].dateValue = milestones[i].dateValue
        /\ ( /\ lastOp'.op \in {"dateChange", "dateBlur"}
             /\ milestones[i].originalDate # "" )
           => milestones'[i].originalDate = milestones[i].originalDate ]_vars

\* the date was set by a blur, then changed, and the changed date was blurred
C10_Witness ==
  /\ loadedRoadmapId = NullId
  /\ lastOp.op = "dateBlur"
  /\ milestones[lastOp.index].originalDate = "2025-06-01"
  /\ milestones[lastOp.index].dateValue = "2025-07-01"

(***************************************************************************)
(* The status registry and the items that name its entries: registry       *)
(* operations, item operations and loads of snapshots whose items name     *)
(* known and unknown statuses. The registry starts from a stored one.      *)
(***************************************************************************)
StoredThree ==
  Stored(<< [name |-> <<"Not Started">>, icon |-> "memo"],
            [name |-> <<"In Progress">>, icon |-> "gear"],
            [name |-> <<"Done">>,        icon |-> "check"] >>)

InitStatus == InitWith(StoredThree, loadStatuses(StoredThree))

RenameInputs == {<<" ">>, <<" Active ">>}
EmojiChoices == {"rocket"}
EmojiIndexes == {1}
SnapshotStatuses == {<<"Done">>, <<"Cancelled">>}

StatusSnapshotMilestones ==
  { << [NullData EXCEPT !.id = <<"milestone", 1>>,
                        !.items = [k \in DOMAIN st |-> [text |-> "", status |-> st[k]]]] >> :
      st \in UNION {[1..n -> SnapshotStatuses] : n \in 1..MaxItems} }

StatusNames == {STATUSES[i].name : i \in DOMAIN STATUSES}

NextStatus ==
  \/ \E c \in BOOLEAN : StartNewRoadmap(c)
  \/ AddLineItem(1)
  \/ \E k \in 1..MaxItems : DeleteLineItem(1, k)
  \/ \E k \in 1..MaxItems, name \in StatusNames : ChangeItemStatus(1, k, name)
  \/ \E index \in 1..MaxStatuses, text \in RenameInputs : LegendRename(index, text)
  \/ \E index \in 1..MaxStatuses, c \in BOOLEAN : LegendRemove(index, c)
  \/ AddStatusClick
  \/ \E index \in EmojiIndexes, e \in EmojiChoices : EmojiChoice(index, e)
  \/ \E ms \in StatusSnapshotMilestones, c \in BOOLEAN :
       /\ LoadRendered("r1", Snapshot("Plan", ms), c)
       /\ UNCHANGED <<regVars, timerVars, now, calls, remote, uiVars>>

SpecStatus == InitStatus /\ [][NextStatus]_vars

AllItems == { <<i, k>> \in (1..MaxMilestones) \X (1..MaxItems) :
                i \in DOMAIN milestones /\ k \in DOMAIN milestones[i].items }

StatusOf(ms, ik) == ms[ik[1]].items[ik[2]].status

(***************************************************************************)
(* C5. Status rename propagation: when the entry at an index is renamed    *)
(* from oldName to newName, every item whose status was oldName has        *)
(* newName afterwards and every other item keeps the status it had.        *)
(***************************************************************************)
C5_RenamePropagation ==
  [][ lastOp'.op = "rename" =>
        LET oldName == STATUSES[lastOp'.index].name
            newName == STATUSES'[lastOp'.index].name
        IN /\ oldName # newName
           /\ \A ik \in AllItems :
                StatusOf(milestones', ik) =
                  IF StatusOf(milestones, ik) = oldName THEN newName
                  ELSE StatusOf(milestones, ik) ]_vars

\* after a rename to "Active": one item follows the rename, another keeps its status
C5_Witness ==
  /\ lastOp.op = "rename"
  /\ STATUSES[lastOp.index].name = <<"Active">>
  /\ \E a, b \in AllItems :
       /\ StatusOf(milestones, a) = <<"Active">>
       /\ StatusOf(milestones, b) # <<"Active">>

(***************************************************************************)
(* C6. Status removal fallback: when a status is removed from a registry   *)
(* of two or more entries, the registry shrinks by one, every item whose   *)
(* status was the removed name gets the name of the entry that is first    *)
(* after the removal, and every other item keeps its status.               *)
(***************************************************************************)
C6_RemovalFallback ==
  [][ lastOp'.op = "remove" =>
        LET removedName == STATUSES[lastOp'.index].name
        IN /\ Len(STATUSES') = Len(STATUSES) - 1
           /\ \A ik \in AllItems :
                StatusOf(milestones', ik) =
                  IF StatusOf(milestones, ik) = removedName THEN STATUSES'[1].name
                  ELSE StatusOf(milestones, ik) ]_vars

(***************************************************************************)
(* C7. No dangling status reference: after every operation on the          *)
(* registry, on the items, and after every load (also of items that name   *)
(* statuses absent from the registry), the status of every checklist item  *)
(* is the name of an entry of the registry.                                *)
(***************************************************************************)
C7_NoDanglingStatus ==
  \A ik \in AllItems : HasStatus(STATUSES, StatusOf(milestones, ik))

\* a load of an item whose status "Cancelled" no entry has: it got the first entry's name
C7_Witness ==
  /\ lastOp.op = "load"
  /\ Len(STATUSES) >= 2
  /\ \A i \in DOMAIN STATUSES : STATUSES[i].name # <<"Done">>
  /\ \E ik \in AllItems : StatusOf(milestones, ik) = STATUSES[1].name

(***************************************************************************)
(* roadmapUi.js and script.js: the handlers of the 'input' events on a     *)
(* milestone's title and purpose, on an item's description and on the      *)
(* roadmap name. The browser has changed the text; the handler schedules   *)
(* the save.                                                               *)
(***************************************************************************)
\* _handleMilestoneTitleInteraction
EditTitle(i, text) ==
  /\ i \in DOMAIN milestones
  /\ milestones[i].title # text
  /\ milestones' = [milestones EXCEPT ![i].title = text]
  /\ debouncedAutoSave
  /\ lastOp' = Op("editTitle", i)
  /\ generated' = <<>>
  /\ UNCHANGED <<roadmapName, milestoneCounter, seenSuffix, regVars, now, netVars, uiVars>>

\* handleRoadmapInteraction, 'input' on .milestone-purpose
EditPurpose(i, text) ==
  /\ i \in DOMAIN milestones
  /\ milestones[i].purpose # text
  /\ milestones' = [milestones EXCEPT ![i].purpose = text]
  /\ debouncedAutoSave
  /\ lastOp' = Op("editPurpose", i)
  /\ generated' = <<>>
  /\ UNCHANGED <<roadmapName, milestoneCounter, seenSuffix, regVars, now, netVars, uiVars>>

\* _handleItemDescriptionInput
EditItemText(i, k, text) ==
  /\ i \in DOMAIN milestones
  /\ k \in DOMAIN milestones[i].items
  /\ milestones[i].items[k].text # text
  /\ milestones' = [milestones EXCEPT ![i].items[k].text = text]
  /\ debouncedAutoSave
  /\ lastOp' = Op("editItemText", i)
  /\ generated' = <<>>
  /\ UNCHANGED <<roadmapName, milestoneCounter, seenSuffix, regVars, now, netVars, uiVars>>

\* roadmapNameInput.addEventListener('input', debouncedAutoSave)
NameInput(text) ==
  /\ roadmapName # text
  /\ roadmapName' = text
  /\ debouncedAutoSave
  /\ lastOp' = Op("nameInput", 0)
  /\ generated' = <<>>
  /\ UNCHANGED <<milestones, milestoneCounter, seenSuffix, regVars, now, netVars, uiVars>>

(***************************************************************************)
(* script.js: getCurrentRoadmapState(). A milestone is read only if        *)
(* querySelector finds its title element; the state is given the shape     *)
(* renderRoadmapFromData looks at. The ids item-<milestone>-<n> it gives   *)
(* the items are read by nothing and are left out.                         *)
(***************************************************************************)
TitleSelector == "h4"     \* milestoneEl.querySelector('h4[contenteditable="true"]')

SerializeItem(item) ==
  [ text   |-> item.text,
    status |-> IF item.status # <<>> THEN item.status ELSE <<"Not Started">> ]

SerializeMilestone(m, milestoneIndex) ==
  [ id                     |-> m.id,
    title                  |-> IF m.title # <<>> THEN m.title
                               ELSE <<"Milestone", milestoneIndex>>,
    purpose                |-> m.purpose,
    currentCompletionDate  |-> m.dateValue,
    originalCompletionDate |-> m.originalDate,
    items                  |-> [k \in DOMAIN m.items |-> SerializeItem(m.items[k])] ]

RECURSIVE SerializeFrom(_, _)
\* milestoneElements.forEach((milestoneEl, milestoneIndex) => ...), from position i on
SerializeFrom(ms, i) ==
  IF i > Len(ms) THEN <<>>
  ELSE (IF ms[i].titleTag = TitleSelector THEN <<SerializeMilestone(ms[i], i)>> ELSE <<>>)
       \o SerializeFrom(ms, i + 1)

getCurrentRoadmapState(name, ms) ==
  [shape |-> "milestones", roadmapName |-> name, milestones |-> SerializeFrom(ms, 1)]

(***************************************************************************)
(* The editor: a document built by the editor's own operations.            *)
(***************************************************************************)
TitleTexts   == {<<>>, <<"Launch">>}
PurposeTexts == {"", "Why"}
ItemTexts    == {"Task"}
NameTexts    == {"", "Plan"}
EditDates    == {"", "2025-06-01"}

EditStatuses == {<<"Not Started">>, <<"Completed">>}

\* titles are edited on every milestone; purpose, date and items on the first
NextEdit ==
  \/ \E c \in BOOLEAN : StartNewRoadmap(c)
  \/ AddMilestoneClick
  \/ \E i \in 1..MaxMilestones : DeleteMilestoneClick(i)
  \/ AddLineItem(1)
  \/ \E k \in 1..MaxItems : DeleteLineItem(1, k)
  \/ \E k \in 1..MaxItems, name \in EditStatuses : ChangeItemStatus(1, k, name)
  \/ \E i \in 1..MaxMilestones, text \in TitleTexts : EditTitle(i, text)
  \/ \E text \in PurposeTexts : EditPurpose(1, text)
  \/ \E k \in 1..MaxItems, text \in ItemTexts : EditItemText(1, k, text)
  \/ \E text \in NameTexts : NameInput(text)
  \/ \E v \in EditDates : DateChange(1, v)
  \/ DateBlur(1)

SpecEdit == InitIds /\ [][NextEdit]_vars

SameContent(a, b) ==
  /\ Len(a) = Len(b)
  /\ \A i \in DOMAIN a :
       /\ i \in DOMAIN b
       /\ a[i].title = b[i].title
       /\ a[i].purpose = b[i].purpose
       /\ a[i].dateValue = b[i].dateValue
       /\ a[i].originalDate = b[i].originalDate
       /\ Len(a[i].items) = Len(b[i].items)
       /\ \A k \in DOMAIN a[i].items :
            /\ k \in DOMAIN b[i].items
            /\ a[i].items[k].text = b[i].items[k].text
            /\ a[i].items[k].status = b[i].items[k].status

(***************************************************************************)
(* C1. Round trip: for every document built by the editor's operations,    *)
(* loading what getCurrentRoadmapState serializes with                     *)
(* renderRoadmapFromData gives a document with the same roadmap name, the  *)
(* same milestones in the same order with the same title, purpose and      *)
(* dates, and the same text and status of every item.                      *)
(***************************************************************************)
C1_RoundTrip ==
  LET state == getCurrentRoadmapState(roadmapName, milestones)
      r == renderRoadmapFromData(state, roadmapName, Doc(milestones), STATUSES)
  IN /\ r.ok
     /\ r.name = roadmapName
     /\ SameContent(r.d.milestones, milestones)

(***************************************************************************)
(* script.js: performSave(isAutoSave) and handleLoadSpecificRoadmap as     *)
(* invocations that run between their awaits. A call is                    *)
(* [kind, auto, pc, op, id, title, data, error]:                           *)
(*   pc "session"   await supabase.auth.getSession() is pending            *)
(*   pc "request"   the insert, update or select on 'roadmaps' is sent     *)
(*   pc "response"  the server has answered, the continuation has not run  *)
(* A row of 'roadmaps' is [id, title, roadmap_data]. The user is signed in *)
(* and every row is the user's.                                            *)
(***************************************************************************)
MaxInFlight == 2      \* invocations that have not returned
MaxRows     == 2      \* rows the table is driven to
TickMs      == 1250   \* the clock moves in steps of this
MaxTime     == 5000   \* and is not driven past this

RowIds == <<"r1", "r2", "r3">>    \* the ids the table gives its rows, in order

SaveCall(auto) ==
  [ kind |-> "save", auto |-> auto, pc |-> "session", op |-> "none", user |-> NoUser,
    id |-> NullId, title |-> "", data |-> <<>>, error |-> FALSE ]

LoadCall(roadmapId) ==
  [ kind |-> "load", auto |-> FALSE, pc |-> "session", op |-> "select", user |-> NoUser,
    id |-> roadmapId, title |-> "", data |-> <<>>, error |-> FALSE ]

\* loadUserRoadmapsList()
ListCall ==
  [ kind |-> "list", auto |-> FALSE, pc |-> "session", op |-> "list", user |-> NoUser,
    id |-> NullId, title |-> "", data |-> <<>>, error |-> FALSE ]

SavesInFlight == {c \in DOMAIN calls : calls[c].kind = "save"}

\* time passes
Tick ==
  /\ now + TickMs <= MaxTime
  /\ now' = now + TickMs
  /\ lastOp' = Op("tick", 0)
  /\ generated' = <<>>
  /\ UNCHANGED <<docVars, seenSuffix, regVars, timerVars, netVars, uiVars>>

\* debounce: the timer runs later(), which calls performSave(true)
TimerFires ==
  /\ timeout # NoTimer
  /\ now >= timeout
  /\ Len(calls) < MaxInFlight
  /\ timeout' = NoTimer
  /\ lastCall' = NoCall
  /\ calls' = Append(calls, SaveCall(TRUE))
  /\ lastOp' = Op("timerFires", lastCall)
  /\ generated' = <<>>
  /\ UNCHANGED <<docVars, seenSuffix, regVars, burst, now, loadedRoadmapId, remote, uiVars>>

\* handleManualSaveClick: performSave(false); a disabled button is not clicked
ManualSaveClick ==
  /\ ~saveDisabled
  /\ Len(calls) < MaxInFlight
  /\ calls' = Append(calls, SaveCall(FALSE))
  /\ lastOp' = Op("manualSave", 0)
  /\ generated' = <<>>
  /\ UNCHANGED <<docVars, seenSuffix, regVars, timerVars, now, loadedRoadmapId, remote, uiVars>>

\* handleLoadSpecificRoadmap: a click on the list entry of the row roadmapId
LoadClick(roadmapId) ==
  /\ Len(calls) < MaxInFlight
  /\ \E row \in remote : row.id = roadmapId /\ row.user_id = user
  /\ calls' = Append(calls, LoadCall(roadmapId))
  /\ lastOp' = Op("loadClick", 0)
  /\ generated' = <<>>
  /\ UNCHANGED <<docVars, seenSuffix, regVars, timerVars, now, loadedRoadmapId, remote, uiVars>>

HasUser_Always(u) == TRUE

\* session?.user
HasUser(u) == u # NoUser

\* getSession() has answered. Without a user the function returns. Else performSave
\* reads the document and loadedRoadmapId and sends the update or the insert; the
\* load and the list send their select
SessionAnswers(c) ==
  /\ c \in DOMAIN calls
  /\ calls[c].pc = "session"
  /\ LET currentRoadmapData == getCurrentRoadmapState(roadmapName, milestones)
         sent == IF calls[c].kind = "save"
                 THEN [calls[c] EXCEPT
                         !.pc = "request",
                         !.user = user,
                         !.op = IF loadedRoadmapId # NullId THEN "update" ELSE "insert",
                         !.id = loadedRoadmapId,
                         !.title = IF currentRoadmapData.roadmapName # ""
                                   THEN currentRoadmapData.roadmapName
                                   ELSE "Untitled Roadmap",
                         !.data = currentRoadmapData.milestones]
                 ELSE [calls[c] EXCEPT !.pc = "request", !.user = user]
     IN IF HasUser(user)
        THEN /\ calls' = [calls EXCEPT ![c] = sent]
             /\ lastOp' = Op("session", 0)
        ELSE /\ calls' = Remove(calls, c)
             /\ lastOp' = Op("noSession", 0)
  /\ generated' = <<>>
  /\ UNCHANGED <<docVars, seenSuffix, regVars, timerVars, now, loadedRoadmapId, remote, uiVars>>

RowOf(id) == CHOOSE row \in remote : row.id = id

\* the table runs the request; ok is whether the request gets through
ServerAnswers(c, ok) ==
  /\ c \in DOMAIN calls
  /\ calls[c].pc = "request"
  /\ LET call  == calls[c]
         found == \E row \in remote : row.id = call.id /\ row.user_id = call.user
         newId == RowIds[Cardinality(remote) + 1]
     IN IF ~ok
        THEN /\ calls' = [calls EXCEPT ![c].pc = "response", ![c].error = TRUE]
             /\ UNCHANGED remote
        ELSE IF call.op = "insert"
        THEN /\ Cardinality(remote) < MaxRows
             /\ remote' = remote \cup
                  {[id |-> newId, user_id |-> call.user, title |-> call.title,
                    roadmap_data |-> call.data]}
             /\ calls' = [calls EXCEPT ![c].pc = "response", ![c].id = newId]
        ELSE IF call.op = "list"
        THEN /\ calls' = [calls EXCEPT ![c].pc = "response"]
             /\ UNCHANGED remote
        ELSE IF call.op = "update"
        THEN /\ remote' = IF found
                          THEN (remote \ {RowOf(call.id)}) \cup
                                 {[id |-> call.id, user_id |-> call.user,
                                   title |-> call.title, roadmap_data |-> call.data]}
                          ELSE remote
             /\ calls' = [calls EXCEPT ![c].pc = "response", ![c].error = ~found]
        ELSE /\ calls' = [calls EXCEPT
                            ![c].pc = "response",
                            ![c].error = ~found,
                            ![c].title = IF found THEN RowOf(call.id).title ELSE "",
                            ![c].data = IF found THEN RowOf(call.id).roadmap_data ELSE <<>>]
             /\ UNCHANGED remote
  /\ lastOp' = Op("server", 0)
  /\ generated' = <<>>
  /\ UNCHANGED <<docVars, seenSuffix, regVars, timerVars, now, loadedRoadmapId, uiVars>>

\* performSave after the await of the insert or update
SaveReturns(c) ==
  /\ c \in DOMAIN calls
  /\ calls[c].kind = "save"
  /\ calls[c].pc = "response"
  /\ loadedRoadmapId' = IF ~calls[c].error /\ calls[c].id # NullId
                        THEN calls[c].id
                        ELSE loadedRoadmapId
  /\ calls' = Remove(calls, c)
  /\ lastOp' = Op(IF calls[c].error THEN "saveFailed" ELSE "saved", 0)
  /\ generated' = <<>>
  /\ UNCHANGED <<docVars, seenSuffix, regVars, timerVars, now, remote, uiVars>>

\* handleLoadSpecificRoadmap after the await of the select
LoadReturns(c, confirmed) ==
  /\ c \in DOMAIN calls
  /\ calls[c].kind = "load"
  /\ calls[c].pc = "response"
  /\ IF calls[c].error
     THEN /\ loadedRoadmapId' = NullId
          /\ lastOp' = Op("loadError", 0)
          /\ generated' = <<>>
          /\ UNCHANGED <<docVars, seenSuffix>>
     ELSE LoadRendered(calls[c].id, Snapshot(calls[c].title, calls[c].data), confirmed)
  /\ calls' = Remove(calls, c)
  /\ UNCHANGED <<regVars, timerVars, now, remote, uiVars>>

(***************************************************************************)
(* Autosave: the roadmap name is typed while time passes; the timer starts *)
(* the saves, whose requests are answered at any time, or fail.            *)
(***************************************************************************)
NextAutoSave ==
  \/ \E text \in NameTexts : NameInput(text)
  \/ Tick
  \/ TimerFires
  \/ \E c \in 1..MaxInFlight : SessionAnswers(c)
  \/ \E c \in 1..MaxInFlight, ok \in BOOLEAN : ServerAnswers(c, ok)
  \/ \E c \in 1..MaxInFlight : SaveReturns(c)

SpecAutoSave == InitIds /\ [][NextAutoSave]_vars

(***************************************************************************)
(* Saving and loading: besides, the save button is clicked and rows of the *)
(* list are loaded.                                                        *)
(***************************************************************************)
NextSave ==
  \/ NextAutoSave
  \/ ManualSaveClick
  \/ \E id \in RoadmapIds : LoadClick(id)
  \/ \E c \in 1..MaxInFlight, confirmed \in BOOLEAN : LoadReturns(c, confirmed)

SpecSave == InitIds /\ [][NextSave]_vars

(***************************************************************************)
(* C2. Same remote identifier: once loadedRoadmapId holds an identifier,   *)
(* no step of a save (manual or automatic, requests and responses in any   *)
(* order) changes it, and the saves of the one document never make a       *)
(* second row.                                                             *)
(***************************************************************************)
C2_SameRemoteId ==
  [][ /\ ( /\ loadedRoadmapId # NullId
           /\ lastOp'.op \in {"session", "server", "saved", "saveFailed"} )
         => loadedRoadmapId' = loadedRoadmapId
      /\ Cardinality(remote') <= 1 ]_vars

(***************************************************************************)
(* C3. At most one save in flight: at any time at most one performSave has *)
(* not completed; a timer that fires during a save starts no second one.   *)
(***************************************************************************)
C3_OneSaveInFlight == Cardinality(SavesInFlight) <= 1

(***************************************************************************)
(* C4. Debounce coalescing: after the last call of a burst exactly one     *)
(* performSave(true) is scheduled, due the full delay after that call; an  *)
(* automatic save starts only when the delay has passed since the last     *)
(* call, and it leaves no timer behind, so that the burst starts no other. *)
(***************************************************************************)
StartsAutoSave ==
  /\ Len(calls') = Len(calls) + 1
  /\ calls'[Len(calls')].kind = "save"
  /\ calls'[Len(calls')].auto

C4_DebounceCoalescing ==
  /\ [](lastCall # NoCall => timeout = lastCall + WAIT)
  /\ [][ StartsAutoSave =>
           /\ lastCall # NoCall
           /\ now >= lastCall + WAIT
           /\ timeout' = NoTimer ]_vars

\* the timer has fired the full delay after the last of two or more calls, of
\* which the last came after the first
C4_Witness ==
  /\ lastOp.op = "timerFires"
  /\ lastOp.index > 0
  /\ now = lastOp.index + WAIT
  /\ burst >= 2
  /\ calls # <<>>
  /\ calls[Len(calls)].auto

(***************************************************************************)
(* The registry from every stored registry statusManager.js can meet at    *)
(* load: none, an unparseable one, an empty array, one entry, three        *)
(* entries. Registry operations and the items of one milestone.            *)
(***************************************************************************)
StoredOne == Stored(<< [name |-> <<"Done">>, icon |-> "check"] >>)

StoredChoices == {Absent, Corrupt, Stored(<<>>), StoredOne, StoredThree}

InitRegistry == \E stored \in StoredChoices : InitWith(stored, loadStatuses(stored))

NextRegistry ==
  \/ \E c \in BOOLEAN : StartNewRoadmap(c)
  \/ AddLineItem(1)
  \/ \E k \in 1..MaxItems, name \in StatusNames : ChangeItemStatus(1, k, name)
  \/ \E index \in 1..MaxStatuses, text \in RenameInputs : LegendRename(index, text)
  \/ \E index \in 1..MaxStatuses, c \in BOOLEAN : LegendRemove(index, c)
  \/ AddStatusClick
  \/ \E index \in EmojiIndexes, e \in EmojiChoices : EmojiChoice(index, e)

SpecRegistry == InitRegistry /\ [][NextRegistry]_vars

(***************************************************************************)
(* C11. The registry is never empty: in every reachable state it holds at  *)
(* least one definition, and a remove request on a registry of exactly one *)
(* definition is rejected: the registry, the stored registry and the       *)
(* status of every item are what they were.                                *)
(***************************************************************************)
C11_RegistryNeverEmpty ==
  /\ [](Len(STATUSES) >= 1)
  /\ [][ (Len(STATUSES) = 1 /\ lastOp'.op \in {"remove", "removeRejected"}) =>
           /\ lastOp'.op = "removeRejected"
           /\ UNCHANGED regVars
           /\ \A ik \in AllItems : StatusOf(milestones', ik) = StatusOf(milestones, ik) ]_vars

\* a remove request was rejected on a one-entry registry that an item names
C11_Witness ==
  /\ lastOp.op = "removeRejected"
  /\ Len(STATUSES) = 1
  /\ storedStatuses = Stored(STATUSES)
  /\ \E ik \in AllItems : StatusOf(milestones, ik) = STATUSES[1].name

\* the same operations, the registry being the default one (nothing stored)
SpecDefaultRegistry == InitIds /\ [][NextRegistry]_vars

(***************************************************************************)
(* C12. Registry names are unique and non-empty: after any sequence of     *)
(* add, rename, remove and set-icon operations from the default registry,  *)
(* no entry has an empty name and no two entries have the same name.       *)
(***************************************************************************)
C12_NamesUniqueNonEmpty ==
  \A i, j \in DOMAIN STATUSES :
    /\ STATUSES[i].name # <<>>
    /\ i # j => STATUSES[i].name # STATUSES[j].name

(***************************************************************************)
(* script.js, local-storage version: loadRoadmapState(). stateJson is what *)
(* localStorage holds under ROADMAP_STORAGE_KEY: [kind, data], kind        *)
(* "absent", "corrupt" (JSON.parse throws) or "json" (data is what was     *)
(* parsed). lastOp records what the load reported: the alert it raised, or *)
(* else its status message.                                                *)
(***************************************************************************)
NoData == [shape |-> "notObject", roadmapName |-> "", milestones |-> <<>>]

\* the old format: a periods array; here beside a name and a milestones array
LegacyData ==
  [ shape |-> "periods", roadmapName |-> "Old",
    milestones |-> << [NullData EXCEPT !.id = <<"milestone", 1>>] >> ]

\* no milestones array, beside other keys
InvalidData == [shape |-> "invalid", roadmapName |-> "Old", milestones |-> <<>>]

NameOnlyData == [shape |-> "nameOnly", roadmapName |-> "Plan", milestones |-> <<>>]

StoredStates ==
  { [kind |-> "absent", data |-> NoData], [kind |-> "corrupt", data |-> NoData] }
    \cup { [kind |-> "json", data |-> data] :
             data \in {NoData, LegacyData, InvalidData, NameOnlyData}
                        \cup {Snapshot("Plan", ms) : ms \in IdSnapshotMilestones} }

loadRoadmapState(stateJson) ==
  LET r == renderRoadmapFromData(stateJson.data, roadmapName, Doc(milestones), STATUSES)
  IN /\ IF stateJson.kind = "json" /\ r.ok
        THEN /\ r.d.counter <= MaxCounter
             /\ roadmapName' = r.name
             /\ milestones' = r.d.milestones
             /\ milestoneCounter' = r.d.counter
             /\ seenSuffix' = r.d.seen
             /\ generated' = r.d.generated
             /\ lastOp' = Op("Roadmap loaded!", 0)
        ELSE /\ roadmapName' = ""
             /\ milestones' = <<>>
             /\ generated' = <<>>
             /\ lastOp' = Op(CASE stateJson.kind = "absent" -> "No saved data found."
                               [] stateJson.kind = "corrupt" -> "Error parsing saved data"
                               [] OTHER -> r.alert, 0)
             /\ UNCHANGED <<milestoneCounter, seenSuffix>>
     /\ UNCHANGED <<regVars, timerVars, now, netVars, uiVars>>

NextLocalLoad ==
  \/ \E c \in BOOLEAN : StartNewRoadmap(c)
  \/ AddMilestoneClick
  \/ \E i \in 1..MaxMilestones : DeleteMilestoneClick(i)
  \/ \E text \in NameTexts : NameInput(text)
  \/ \E stateJson \in StoredStates : loadRoadmapState(stateJson)

SpecLocalLoad == InitIds /\ [][NextLocalLoad]_vars

(***************************************************************************)
(* C13. Legacy format rejection: a load of stored data that has a periods  *)
(* array reports the incompatible format, which is not what a load of      *)
(* unparseable data reports, and leaves no milestone in the document.      *)
(***************************************************************************)
C13_LegacyRejected ==
  [][ /\ loadRoadmapState([kind |-> "json", data |-> LegacyData]) =>
           /\ lastOp'.op = "Incompatible Data"
           /\ milestones' = <<>>
      /\ loadRoadmapState([kind |-> "corrupt", data |-> NoData]) =>
           lastOp'.op \notin {"Incompatible Data", "Roadmap loaded!"} ]_vars

\* the old format was rejected while the document had milestones and a name
C13_Witness ==
  /\ lastOp.op = "Incompatible Data"
  /\ milestones = <<>>
  /\ roadmapName = ""
  /\ milestoneCounter > 0

(***************************************************************************)
(* script.js, Supabase version: loads of rows whose roadmap_data is an     *)
(* array of milestones, or no array (the column holds any JSON), into a    *)
(* document that is being edited.                                          *)
(***************************************************************************)
NextRemoteLoad ==
  \/ \E c \in BOOLEAN : StartNewRoadmap(c)
  \/ AddMilestoneClick
  \/ \E i \in 1..MaxMilestones : DeleteMilestoneClick(i)
  \/ \E text \in NameTexts : NameInput(text)
  \/ \E id \in RoadmapIds, c \in BOOLEAN,
        renderData \in {InvalidData} \cup {Snapshot("Plan", ms) : ms \in IdSnapshotMilestones} :
       /\ LoadRendered(id, renderData, c)
       /\ UNCHANGED <<regVars, timerVars, now, calls, remote, uiVars>>

SpecRemoteLoad == InitIds /\ [][NextRemoteLoad]_vars

(***************************************************************************)
(* C14. After a load that fails with a format error the document area is   *)
(* empty: no milestones and an empty roadmap name.                         *)
(***************************************************************************)
C14_FailedLoadClears ==
  [][ lastOp'.op = "loadFailed" => (milestones' = <<>> /\ roadmapName' = "") ]_vars

(***************************************************************************)
(* script.js: the listener given to supabase.auth.onAuthStateChange. The   *)
(* session changes and the listener runs. A SIGNED_IN (or INITIAL_SESSION) *)
(* event carries the session of sessionUser; SIGNED_OUT carries none. The  *)
(* forms that sign a user in are shown while no user is signed in.         *)
(***************************************************************************)
Users == {"u1", "u2"}

onAuthStateChange(event, sessionUser) ==
  /\ generated' = <<>>
  /\ IF event = "SIGNED_IN"
     THEN /\ sessionUser \in Users
          /\ user = NoUser
          /\ Len(calls) < MaxInFlight
          /\ user' = sessionUser
          /\ saveDisabled' = FALSE
          /\ calls' = Append(calls, ListCall)
          /\ lastOp' = Op("signedIn", 0)
          /\ UNCHANGED <<docVars, loadedRoadmapId>>
     ELSE /\ event = "SIGNED_OUT"
          /\ sessionUser = NoUser
          /\ user # NoUser
          /\ user' = NoUser
          /\ loadedRoadmapId' = NullId
          /\ saveDisabled' = TRUE
          /\ milestones' = <<>>
          /\ roadmapName' = ""
          /\ lastOp' = Op("signedOut", 0)
          /\ UNCHANGED <<milestoneCounter, calls>>
  /\ UNCHANGED <<seenSuffix, regVars, timerVars, now, remote, aiVars>>

\* loadUserRoadmapsList after the await of the select: the list is shown
ListReturns(c) ==
  /\ c \in DOMAIN calls
  /\ calls[c].kind = "list"
  /\ calls[c].pc = "response"
  /\ calls' = Remove(calls, c)
  /\ lastOp' = Op(IF calls[c].error THEN "listFailed" ELSE "listed", 0)
  /\ generated' = <<>>
  /\ UNCHANGED <<docVars, seenSuffix, regVars, timerVars, now, loadedRoadmapId, remote, uiVars>>

(***************************************************************************)
(* Saving while users sign in and out: name edits, the clock, the timer,   *)
(* the save button, and the calls answered at any time.                    *)
(***************************************************************************)
NextSession ==
  \/ \E text \in NameTexts : NameInput(text)
  \/ Tick
  \/ TimerFires
  \/ ManualSaveClick
  \/ onAuthStateChange("SIGNED_IN", "u1")
  \/ onAuthStateChange("SIGNED_OUT", NoUser)
  \/ \E c \in 1..MaxInFlight : SessionAnswers(c)
  \/ \E c \in 1..MaxInFlight : ServerAnswers(c, TRUE)
  \/ \E c \in 1..MaxInFlight : SaveReturns(c)
  \/ \E c \in 1..MaxInFlight : ListReturns(c)

SpecSession == InitIds /\ [][NextSession]_vars

\* the calls that have sent their request
Requests(cs) == {cs[i] : i \in {j \in DOMAIN cs : cs[j].pc # "session"}}

(***************************************************************************)
(* C15. Unauthenticated fail-fast: when getSession() answers performSave   *)
(* (manual or automatic) or loadUserRoadmapsList while there is no         *)
(* session, the function returns: it sends no insert, update or select,    *)
(* the table is as it was and loadedRoadmapId is unchanged.                *)
(***************************************************************************)
C15_NoSessionNoRequest ==
  [][ (user = NoUser /\ lastOp'.op \in {"session", "noSession"}) =>
        /\ lastOp'.op = "noSession"
        /\ Len(calls') = Len(calls) - 1
        /\ Requests(calls') \subseteq Requests(calls)
        /\ UNCHANGED <<remote, loadedRoadmapId>> ]_vars

\* a call found no session after a sign-out, rows having been saved before
C15_Witness ==
  /\ lastOp.op = "noSession"
  /\ user = NoUser
  /\ remote # {}
  /\ calls = <<>>

(***************************************************************************)
(* C16. A click on the save button starts a save at once, whatever the     *)
(* debounce timer, and does not leave the debounce timer armed: no         *)
(* automatic save is started right after it.                               *)
(***************************************************************************)
C16_ManualSaveDisarms ==
  [][ /\ lastOp'.op = "manualSave" =>
           /\ Len(calls') = Len(calls) + 1
           /\ ~calls'[Len(calls')].auto
           /\ timeout' = NoTimer
      /\ lastOp.op = "manualSave" => lastOp'.op # "timerFires" ]_vars

(***************************************************************************)
(* script.js: handleGenerateAiRoadmap, the click on "Generate with AI"     *)
(* with a description typed, and the end of its fetch. outcome is "ok"     *)
(* (response.ok, data is the parsed body), "error" (the function answered  *)
(* with an error status) or "exception" (fetch or response.json() threw).  *)
(* The finally block enables the button on every path.                     *)
(***************************************************************************)
AiCall ==
  [ kind |-> "ai", auto |-> FALSE, pc |-> "request", op |-> "generate", user |-> NoUser,
    id |-> NullId, title |-> "", data |-> <<>>, error |-> FALSE ]

AiClick ==
  /\ ~generateAiDisabled
  /\ Len(calls) < MaxInFlight
  /\ generateAiDisabled' = TRUE
  /\ aiStatusMessage' = "Generating roadmap with AI..."
  /\ calls' = Append(calls, AiCall)
  /\ lastOp' = Op("aiClick", 0)
  /\ generated' = <<>>
  /\ UNCHANGED <<docVars, seenSuffix, regVars, timerVars, now, loadedRoadmapId, remote,
                 sessionVars>>

AiReturns(c, outcome, data, confirmed) ==
  /\ c \in DOMAIN calls
  /\ calls[c].kind = "ai"
  /\ IF outcome = "ok"
     THEN AiRendered(data, confirmed)
     ELSE /\ aiStatusMessage' = IF outcome = "error" THEN "Unknown backend error occurred."
                                ELSE "Network error or function unreachable."
          /\ lastOp' = Op("aiFailed", 0)
          /\ generated' = <<>>
          /\ UNCHANGED <<docVars, seenSuffix, timerVars>>
  /\ generateAiDisabled' = FALSE
  /\ calls' = Remove(calls, c)
  /\ UNCHANGED <<regVars, now, loadedRoadmapId, remote, sessionVars>>

\* bodies of a successful response: a name that is a string, no string (the name input
\* shows "7" for the number 7) or missing; milestones that are an array, or not
AiResponses ==
  { [roadmapName |-> name[1], nameIsString |-> name[2], milestones |-> ms, isArray |-> TRUE] :
      name \in {<<"Plan", TRUE>>, <<"7", FALSE>>, <<"", FALSE>>},
      ms \in {<<>>, << [NullData EXCEPT !.title = <<"Launch">>] >>} }
    \cup { [roadmapName |-> "Plan", nameIsString |-> TRUE, milestones |-> <<>>,
            isArray |-> FALSE] }

NextAi ==
  \/ \E c \in BOOLEAN : StartNewRoadmap(c)
  \/ \E text \in NameTexts : NameInput(text)
  \/ AiClick
  \/ \E c \in 1..MaxInFlight, outcome \in {"error", "exception"} :
       AiReturns(c, outcome, AiData("", <<>>), TRUE)
  \/ \E c \in 1..MaxInFlight, data \in AiResponses, confirmed \in BOOLEAN :
       AiReturns(c, "ok", data, confirmed)

SpecAi == InitIds /\ [][NextAi]_vars

(***************************************************************************)
(* C17. AI response validation: a successful response whose roadmapName   *)
(* is not a string or whose milestones are not an array is rejected: the   *)
(* name and the milestones of the document are unchanged, no autosave is   *)
(* scheduled, and the status shown at the end is the error about           *)
(* incomplete data.                                                        *)
(***************************************************************************)
C17_AiResponseValidated ==
  [][ \A c \in 1..MaxInFlight, data \in AiResponses :
        (AiReturns(c, "ok", data, TRUE) /\ (~data.nameIsString \/ ~data.isArray)) =>
          /\ UNCHANGED <<roadmapName, milestones, timerVars>>
          /\ aiStatusMessage' = "AI generated data, but it seems incomplete (no milestones)." ]_vars

(***************************************************************************)
(* The controls that start requests: "Generate with AI", the save button   *)
(* and the entries of the saved-roadmaps list, with the requests answered  *)
(* at any time, or failing.                                                *)
(***************************************************************************)
NextControls ==
  \/ AiClick
  \/ \E c \in 1..MaxInFlight, outcome \in {"ok", "error", "exception"}, confirmed \in BOOLEAN :
       AiReturns(c, outcome, AiData("Plan", << [NullData EXCEPT !.title = <<"Launch">>] >>),
                 confirmed)
  \/ ManualSaveClick
  \/ \E id \in RoadmapIds : LoadClick(id)
  \/ \E c \in 1..MaxInFlight : SessionAnswers(c)
  \/ \E c \in 1..MaxInFlight, ok \in BOOLEAN : ServerAnswers(c, ok)
  \/ \E c \in 1..MaxInFlight : SaveReturns(c)
  \/ \E c \in 1..MaxInFlight, confirmed \in BOOLEAN : LoadReturns(c, confirmed)

SpecControls == InitIds /\ [][NextControls]_vars

\* the requests that the control of the given kind has started and that have not completed
InFlight(kind) == {c \in DOMAIN calls : calls[c].kind = kind /\ ~calls[c].auto}

(***************************************************************************)
(* C18. The control of a network action is disabled from the start of its  *)
(* request to its completion and enabled afterwards: a control is disabled *)
(* exactly while its request is in flight, and no control has two requests *)
(* in flight.                                                              *)
(***************************************************************************)
C18_ControlDisabledInFlight ==
  /\ generateAiDisabled <=> InFlight("ai") # {}
  /\ saveDisabled <=> InFlight("save") # {}
  /\ \A kind \in {"ai", "save", "load"} : Cardinality(InFlight(kind)) <= 1

(***************************************************************************)
(* Users sign out and in while a document is edited and saved.             *)
(***************************************************************************)
NextAuth ==
  \/ \E c \in BOOLEAN : StartNewRoadmap(c)
  \/ \E text \in NameTexts : NameInput(text)
  \/ ManualSaveClick
  \/ \E u \in Users : onAuthStateChange("SIGNED_IN", u)
  \/ onAuthStateChange("SIGNED_OUT", NoUser)
  \/ \E c \in 1..MaxInFlight : SessionAnswers(c)
  \/ \E c \in 1..MaxInFlight : ServerAnswers(c, TRUE)
  \/ \E c \in 1..MaxInFlight : SaveReturns(c)
  \/ \E c \in 1..MaxInFlight : ListReturns(c)

SpecAuth == InitIds /\ [][NextAuth]_vars

(***************************************************************************)
(* C19. On every identity change, sign-in as well as sign-out, the         *)
(* document is cleared (no milestones, empty name) and loadedRoadmapId is  *)
(* reset; when a user has signed in, the list of saved roadmaps is queried *)
(* for that user.                                                          *)
(***************************************************************************)
C19_IdentityChangeClears ==
  [][ user' # user =>
        /\ milestones' = <<>>
        /\ roadmapName' = ""
        /\ loadedRoadmapId' = NullId
        /\ user' # NoUser =>
             /\ Len(calls') = Len(calls) + 1
             /\ calls'[Len(calls')].kind = "list" ]_vars

(***************************************************************************)
(* C20. Date validation: when the value committed to the date input of a   *)
(* milestone (change, then blur) is not a parseable calendar date, the     *)
(* currentCompletionDate and the originalCompletionDate that               *)
(* serialization reads from the milestone are what they were before.       *)
(***************************************************************************)
C20_InvalidDateMutatesNothing ==
  [][ \A i \in DOMAIN milestones :
        ( /\ lastOp'.op \in {"dateChange", "dateBlur"}
          /\ lastOp'.index = i
          /\ ~IsParseableDate(milestones'[i].dateValue) )
        => LET before == SerializeMilestone(milestones[i], i)
               after  == SerializeMilestone(milestones'[i], i)
           IN /\ after.currentCompletionDate = before.currentCompletionDate
              /\ after.originalCompletionDate = before.originalCompletionDate ]_vars

(***************************************************************************)
(* C21. Rename validation: a rename whose new name is only white space is  *)
(* rejected: the registry, the stored registry and the status of every     *)
(* item are unchanged and no autosave is scheduled; a rename whose trimmed *)
(* new name is the name the entry has is no error and changes as little.   *)
(***************************************************************************)
C21_RenameValidation ==
  [][ \A index \in 1..MaxStatuses :
        /\ LegendRename(index, <<" ">>) =>
             /\ lastOp'.op = "renameRejected"
             /\ UNCHANGED <<regVars, timerVars>>
             /\ \A ik \in AllItems : StatusOf(milestones', ik) = StatusOf(milestones, ik)
        /\ (LegendRename(index, <<" Active ">>) /\ STATUSES[index].name = <<"Active">>) =>
             /\ lastOp'.op = "renameSame"
             /\ UNCHANGED <<regVars, timerVars>>
             /\ \A ik \in AllItems : StatusOf(milestones', ik) = StatusOf(milestones, ik) ]_vars

\* a name of white space was rejected while an item names an entry of the stored registry
C21_Witness ==
  /\ lastOp.op = "renameRejected"
  /\ storedStatuses = StoredThree
  /\ \E ik \in AllItems : StatusOf(milestones, ik) = STATUSES[1].name

DoneEntry == [name |-> <<"Done">>, icon |-> "check"]

LoadInputs ==
  StoredChoices
    \cup { [kind |-> "other", value |-> <<>>],
           Stored(<< [name |-> <<>>, icon |-> "check"] >>),
           Stored(<< DoneEntry, [name |-> <<"Blocked">>, icon |-> ""] >>),
           Stored(<< [name |-> NotAStringName, icon |-> "check"], DoneEntry >>),
           Stored(<< DoneEntry, [name |-> <<"Blocked">>, icon |-> NotAStringIcon] >>),
           Stored(<< [name |-> NotAStringName, icon |-> NotAStringIcon] >>) }

InitLoadStatuses == \E stored \in LoadInputs : InitWith(stored, loadStatuses(stored))

Reload ==
  /\ STATUSES' = loadStatuses(storedStatuses)
  /\ roadmapName' = ""
  /\ milestones' = <<>>
  /\ milestoneCounter' = 0
  /\ timeout' = NoTimer
  /\ lastCall' = NoCall
  /\ burst' = 0
  /\ loadedRoadmapId' = NullId
  /\ calls' = <<>>
  /\ saveDisabled' = ~HasUser(user)
  /\ generateAiDisabled' = FALSE
  /\ aiStatusMessage' = ""
  /\ lastOp' = Op("init", 0)
  /\ seenSuffix' = 0
  /\ generated' = <<>>
  /\ UNCHANGED <<storedStatuses, storedRoadmap, now, remote, user>>

NextLoadStatuses ==
  \/ \E index \in 1..MaxStatuses, text \in RenameInputs : LegendRename(index, text)
  \/ \E index \in 1..MaxStatuses, c \in BOOLEAN : LegendRemove(index, c)
  \/ AddStatusClick
  \/ \E index \in EmojiIndexes, e \in EmojiChoices : EmojiChoice(index, e)
  \/ Reload

SpecLoadStatuses == InitLoadStatuses /\ [][NextLoadStatuses]_vars

\* a non-empty array in which every element has a non-empty string name and icon
ValidStored(stored) ==
  /\ stored.kind = "json"
  /\ Len(stored.value) > 0
  /\ \A i \in DOMAIN stored.value :
       /\ IsStringName(stored.value[i].name) /\ stored.value[i].name # <<>>
       /\ IsStringIcon(stored.value[i].icon) /\ stored.value[i].icon # ""

(***************************************************************************)
(* C23. Registry load: right after a load of the page the registry is the  *)
(* stored array when that is a non-empty array in which every element has  *)
(* a non-empty string name and a non-empty string icon, and the default    *)
(* set for every other stored value.                                       *)
(***************************************************************************)
C23_LoadStatuses ==
  lastOp.op = "init" =>
    STATUSES = IF ValidStored(storedStatuses) THEN storedStatuses.value ELSE DEFAULT_STATUSES

(***************************************************************************)
(* roadmapUi.js _initializeSortableOnContainer: the end of a drag of an    *)
(* item. SortableJS has moved the row from position from to position to of *)
(* the container; onEnd triggers the autosave, also when the row is        *)
(* dropped where it was.                                                   *)
(***************************************************************************)
Move(s, from, to) ==
  [k \in 1..Len(s) |->
     IF k = to THEN s[from]
     ELSE IF from < to /\ k >= from /\ k < to THEN s[k + 1]
     ELSE IF from > to /\ k > to /\ k <= from THEN s[k - 1]
     ELSE s[k]]

ItemDrop(i, from, to) ==
  /\ i \in DOMAIN milestones
  /\ from \in DOMAIN milestones[i].items
  /\ to \in DOMAIN milestones[i].items
  /\ SetItems(i, Move(milestones[i].items, from, to))
  /\ debouncedAutoSave
  /\ lastOp' = Op("itemDrop", i)
  /\ generated' = <<>>
  /\ UNCHANGED <<roadmapName, milestoneCounter, seenSuffix, regVars, now, netVars, uiVars>>

(***************************************************************************)
(* The interactions of the page with the clock and the debounce timer:     *)
(* script.js listeners, roadmapUi.js handleRoadmapInteraction and the      *)
(* registry handlers of statusManager.js.                                  *)
(***************************************************************************)
NextInteract ==
  \/ (milestones = <<>> /\ AddMilestoneClick)
  \/ DeleteMilestoneClick(1)
  \/ AddLineItem(1)
  \/ \E k \in 1..MaxItems : DeleteLineItem(1, k)
  \/ \E from \in 1..MaxItems, to \in 1..MaxItems : ItemDrop(1, from, to)
  \/ \E k \in 1..MaxItems : ChangeItemStatus(1, k, <<"Completed">>)
  \/ EditTitle(1, <<"Launch">>)
  \/ EditPurpose(1, "Why")
  \/ EditItemText(1, 1, "Task")
  \/ NameInput("Plan")
  \/ DateChange(1, "2025-06-01")
  \/ DateBlur(1)
  \/ LegendRename(1, <<" Active ">>)
  \/ LegendRemove(2, TRUE)
  \/ EmojiChoice(1, "rocket")
  \/ (now < 2 * TickMs /\ Tick)
  \/ TimerFires

SpecInteract == InitIds /\ [][NextInteract]_vars

\* what the page shows of the document: the name and the milestones
DocumentChanged == <<roadmapName, milestones>>' # <<roadmapName, milestones>>

\* debouncedAutoSave has run in this step: the timer is set anew from now
ArmedNow == timeout' = now + WAIT /\ lastCall' = now

(***************************************************************************)
(* C24. Every interaction that changes what the document shows arms the    *)
(* autosave timer in the same event: milestone add and delete, item add,   *)
(* delete and reorder, edits of title, purpose, text and name, status and  *)
(* date changes, the setting of the original date on blur, and the         *)
(* propagation of a registry rename, removal and icon change.              *)
(***************************************************************************)
C24_MutationArmsTimer ==
  [][ DocumentChanged => ArmedNow ]_vars

\* the same for every interaction but the blur of the date input
C24_ArmsButBlur ==
  [][ (DocumentChanged /\ lastOp'.op # "dateBlur") => ArmedNow ]_vars

(***************************************************************************)
(* Eventual persistence, Supabase version. The user stays signed in and    *)
(* every request succeeds. The edits are edits of the name, possible while *)
(* the clock leaves room for the timer they arm; the clock runs on, so the *)
(* edits stop. Fairness: the clock advances, a due timer fires (setTimeout)*)
(* and every pending promise of performSave settles: getSession answers,   *)
(* the server executes the request, the response is handled.               *)
(***************************************************************************)
NextPersist ==
  \/ \E text \in NameTexts : (now + WAIT <= MaxTime /\ NameInput(text))
  \/ Tick
  \/ TimerFires
  \/ ManualSaveClick
  \/ \E c \in 1..MaxInFlight : SessionAnswers(c)
  \/ \E c \in 1..MaxInFlight : ServerAnswers(c, TRUE)
  \/ \E c \in 1..MaxInFlight : SaveReturns(c)

FairPersist ==
  /\ WF_vars(Tick)
  /\ WF_vars(TimerFires)
  /\ \A c \in 1..MaxInFlight :
       /\ WF_vars(SessionAnswers(c))
       /\ WF_vars(ServerAnswers(c, TRUE))
       /\ WF_vars(SaveReturns(c))

SpecPersist == InitIds /\ [][NextPersist]_vars /\ FairPersist

\* the row the page tracks holds the serialization of the current document
Persisted ==
  LET currentRoadmapData == getCurrentRoadmapState(roadmapName, milestones)
  IN /\ loadedRoadmapId # NullId
     /\ \E row \in remote :
          /\ row.id = loadedRoadmapId
          /\ row.title = (IF currentRoadmapData.roadmapName # ""
                          THEN currentRoadmapData.roadmapName
                          ELSE "Untitled Roadmap")
          /\ row.roadmap_data = currentRoadmapData.milestones

(***************************************************************************)
(* C25. Eventual persistence: with a signed-in user, requests that all     *)
(* succeed and edits that stop, once the document has been edited the      *)
(* tracked remote row eventually equals the serialization of the current   *)
(* document and stays so, also when two saves overlap.                     *)
(***************************************************************************)
C25_EventualPersistence ==
  <>[](burst > 0 => Persisted)

(***************************************************************************)
(* Replacement of the document while a row is tracked, Supabase version:   *)
(* the start-new listener (script.js 1456-1467) and the success branch of  *)
(* handleGenerateAiRoadmap (1196-1223), followed by the saves of           *)
(* performSave. The user's documents are named by NameInput, the generated *)
(* one carries the name the AI answers, so a row tells which document was  *)
(* written to it. One request is pending at a time, so that a row is       *)
(* tracked before the document is replaced and saved again.                *)
(***************************************************************************)
AiName == "Vision"

NextReplace ==
  \/ NameInput("Plan")
  \/ StartNewRoadmap(TRUE)
  \/ (calls = <<>> /\ AiClick)
  \/ \E c \in 1..MaxInFlight : AiReturns(c, "ok", AiData(AiName, <<>>), TRUE)
  \/ (calls = <<>> /\ ManualSaveClick)
  \/ Tick
  \/ (calls = <<>> /\ TimerFires)
  \/ \E id \in RoadmapIds : (calls = <<>> /\ LoadClick(id))
  \/ \E c \in 1..MaxInFlight : SessionAnswers(c)
  \/ \E c \in 1..MaxInFlight : ServerAnswers(c, TRUE)
  \/ \E c \in 1..MaxInFlight : SaveReturns(c)
  \/ \E c \in 1..MaxInFlight : LoadReturns(c, TRUE)

SpecReplace == InitIds /\ [][NextReplace]_vars

(***************************************************************************)
(* C26. No save overwrites a tracked roadmap with a replaced document:     *)
(* after a row has been saved or loaded from the user's document and the   *)
(* document is replaced by AI generation (or a new roadmap is started),    *)
(* no save updates that row with the content of the new document.          *)
(***************************************************************************)
C26_ReplacementLeavesRow ==
  [][ \A row \in remote :
        row.title # AiName =>
          \A written \in remote' : written.id = row.id => written.title # AiName ]_vars

(***************************************************************************)
(* The debounce timer across a change of user, Supabase version. Only the  *)
(* first user edits and nobody clicks the save button, so every save is    *)
(* the firing of a timer that was armed in the first user's session. A     *)
(* user signs in while no call is pending, so a save that runs in the      *)
(* second user's session comes from a timer that fired in it.              *)
(***************************************************************************)
FirstUser == "u1"
SecondUser == "u2"

NextHandover ==
  \/ \E text \in NameTexts : (user = FirstUser /\ NameInput(text))
  \/ Tick
  \/ TimerFires
  \/ onAuthStateChange("SIGNED_OUT", NoUser)
  \/ \E u \in Users : (calls = <<>> /\ onAuthStateChange("SIGNED_IN", u))
  \/ \E c \in 1..MaxInFlight : SessionAnswers(c)
  \/ \E c \in 1..MaxInFlight : ServerAnswers(c, TRUE)
  \/ \E c \in 1..MaxInFlight : SaveReturns(c)
  \/ \E c \in 1..MaxInFlight : ListReturns(c)

SpecHandover == InitIds /\ [][NextHandover]_vars

(***************************************************************************)
(* C27. A timer armed in one user's session writes nothing for another     *)
(* user: when the first user has armed the timer and signed out and a      *)
(* second user has signed in before it fires, the autosave inserts or      *)
(* updates no row owned by the second user.                                *)
(***************************************************************************)
C27_TimerStaysWithUser ==
  \A row \in remote : row.user_id # SecondUser

(***************************************************************************)
(* C28. A remote load that fails (query error, row not found, exception,   *)
(* data that does not render) or that the user cancels at the prompt       *)
(* leaves the document and the tracked roadmap identifier as they were     *)
(* when the load was requested.                                            *)
(***************************************************************************)
C28_FailedLoadChangesNothing ==
  [][ lastOp'.op \in {"loadFailed", "loadError", "loadCancelled"} =>
        UNCHANGED <<roadmapName, milestones, loadedRoadmapId>> ]_vars

\* the same for the document alone, and for the cancelled load alone
C28_FailedLoadKeepsDocument ==
  [][ lastOp'.op \in {"loadFailed", "loadError", "loadCancelled"} =>
        UNCHANGED <<roadmapName, milestones>> ]_vars

C28_CancelledLoadChangesNothing ==
  [][ lastOp'.op = "loadCancelled" =>
        UNCHANGED <<roadmapName, milestones, loadedRoadmapId>> ]_vars

(***************************************************************************)
(* C29. Icon consistency: after every operation of the registry (add,      *)
(* rename, remove, icon change), every change of an item's status and      *)
(* every load, the icon shown on each item is the icon of the registry     *)
(* entry that find returns for the item's status name.                     *)
(***************************************************************************)
C29_IconConsistent ==
  \A ik \in AllItems :
    milestones[ik[1]].items[ik[2]].icon = FindIcon(STATUSES, StatusOf(milestones, ik))

\* the registry holds no name twice
NamesDistinct ==
  \A i, j \in DOMAIN STATUSES : STATUSES[i].name = STATUSES[j].name => i = j

\* the same while the names of the registry are pairwise distinct
C29_ConsistentWhileDistinct ==
  NamesDistinct => C29_IconConsistent

(***************************************************************************)
(* Local-storage version (script.js 1-602): the page with its two keys of  *)
(* localStorage. The registry is stored by statusManager.js at every       *)
(* change, the document by performSave when the debounce timer fires; the  *)
(* load of the page reads both (loadStatuses, attemptAutoLoad). The        *)
(* browser starts with the registry and the roadmap an earlier session     *)
(* left, the statuses of the stored items being names of the stored        *)
(* registry.                                                               *)
(***************************************************************************)
LocalSnapshot ==
  Snapshot("Plan", << [NullData EXCEPT !.id = <<"milestone", 1>>,
                                       !.items = << [text |-> "", status |-> <<"Done">>] >>] >>)

LocalStoredRoadmaps == {NoStoredRoadmap, [kind |-> "json", data |-> LocalSnapshot]}

\* script.js attemptAutoLoad after statusManager.js let STATUSES = loadStatuses()
LoadedPage(stateJson, stored) ==
  LET statuses == loadStatuses(stored)
      r == renderRoadmapFromData(stateJson.data, "",
             [milestones |-> <<>>, counter |-> 0, seen |-> 0, generated |-> <<>>], statuses)
      rendered == stateJson.kind = "json" /\ r.ok
  IN [ statuses   |-> statuses,
       name       |-> IF rendered THEN r.name ELSE "",
       milestones |-> IF rendered THEN r.d.milestones ELSE <<>>,
       counter    |-> IF rendered THEN r.d.counter ELSE 0,
       seen       |-> IF rendered THEN r.d.seen ELSE 0 ]

InitLocal ==
  \E stateJson \in LocalStoredRoadmaps :
    LET page == LoadedPage(stateJson, StoredThree)
    IN /\ roadmapName = page.name
       /\ milestones = page.milestones
       /\ milestoneCounter = page.counter
       /\ STATUSES = page.statuses
       /\ storedStatuses = StoredThree
       /\ storedRoadmap = stateJson
       /\ timeout = NoTimer
       /\ lastCall = NoCall
       /\ burst = 0
       /\ now = 0
       /\ loadedRoadmapId = NullId
       /\ calls = <<>>
       /\ remote = {}
       /\ user = NoUser
       /\ saveDisabled = FALSE
       /\ generateAiDisabled = FALSE
       /\ aiStatusMessage = ""
       /\ lastOp = Op("init", 0)
       /\ seenSuffix = page.seen
       /\ generated = <<>>

\* the reload of the page
LocalReload ==
  LET page == LoadedPage(storedRoadmap, storedStatuses)
  IN /\ roadmapName' = page.name
     /\ milestones' = page.milestones
     /\ milestoneCounter' = page.counter
     /\ STATUSES' = page.statuses
     /\ seenSuffix' = page.seen
     /\ timeout' = NoTimer
     /\ lastCall' = NoCall
     /\ burst' = 0
     /\ lastOp' = Op("reload", 0)
     /\ generated' = <<>>
     /\ UNCHANGED <<storedStatuses, storedRoadmap, now, netVars, uiVars>>

\* script.js 199-228 and 342-344: the timer fires, performSave(true) stores the document
LocalTimerFires ==
  /\ timeout # NoTimer
  /\ now >= timeout
  /\ timeout' = NoTimer
  /\ lastCall' = NoCall
  /\ storedRoadmap' = [kind |-> "json", data |-> getCurrentRoadmapState(roadmapName, milestones)]
  /\ lastOp' = Op("localSave", 0)
  /\ generated' = <<>>
  /\ UNCHANGED <<docVars, seenSuffix, STATUSES, storedStatuses, burst, now, netVars, uiVars>>

NextLocal ==
  \/ StartNewRoadmap(TRUE)
  \/ AddLineItem(1)
  \/ \E k \in 1..MaxItems, name \in StatusNames : ChangeItemStatus(1, k, name)
  \/ \E index \in 1..MaxStatuses, text \in RenameInputs : LegendRename(index, text)
  \/ \E index \in 1..MaxStatuses : LegendRemove(index, TRUE)
  \/ Tick
  \/ LocalTimerFires
  \/ LocalReload

SpecLocal == InitLocal /\ [][NextLocal]_vars

(***************************************************************************)
(* C30. Stored document and stored registry agree at every moment, also    *)
(* between a rename or removal in the registry, which is stored at once,   *)
(* and the debounced save of the document: every item status of the stored *)
(* roadmap is the name of an entry of the stored registry.                 *)
(***************************************************************************)
C30_StoredConsistent ==
  storedRoadmap.kind = "json" =>
    \A i \in DOMAIN storedRoadmap.data.milestones :
      \A k \in DOMAIN storedRoadmap.data.milestones[i].items :
        HasStatus(loadStatuses(storedStatuses), storedRoadmap.data.milestones[i].items[k].status)

====
